---- MODULE Spec2Model ----
(***************************************************************************)
(* Model of src/app.py: the text normalizer (clean_extracted), the         *)
(* segmenter (chunk_text_for_tts) and the retrying synthesis driver        *)
(* (generate_gtts_parts).                                                  *)
(*                                                                         *)
(* A Python str is modelled as a sequence of one-character strings.        *)
(***************************************************************************)
EXTENDS Integers, Sequences, FiniteSets, TLC

VARIABLES
    pc,            \* position of the operation being run
    raw,           \* clean_extracted: the raw text first handed in
    text_content,  \* clean_extracted: current value of the text (app.py:123)
    prev,          \* clean_extracted: value of the text before the last call
    ncleans,       \* clean_extracted: number of calls made so far
    text,          \* chunk_text_for_tts / generate_gtts_parts: parameter text
    max_chars,     \* parameter max_chars (max_chars_per_call)
    sentences,     \* chunk_text_for_tts: local sentences
    si,            \* chunk_text_for_tts: index of the next sentence of the for loop
    parts,         \* local parts (of either function)
    cur,           \* chunk_text_for_tts: local cur
    retries,       \* generate_gtts_parts: parameter retries
    idx,           \* generate_gtts_parts: loop variable idx (1-based)
    attempt,       \* generate_gtts_parts: loop variable attempt
    out_paths,     \* generate_gtts_parts: local out_paths
    last_err,      \* generate_gtts_parts: local last_err
    wait,          \* generate_gtts_parts: local wait (0 before any backoff)
    err,           \* the RuntimeError raised to the caller, NoErr if none
    inflight,      \* remote calls issued and not yet answered
    calls,         \* the remote calls of this run, as <<idx, attempt>>
    script,        \* the remote's scripted responses, one per call
    run,           \* 1 in the first run over the script, 2 in the second
    first,         \* what the first run did, once it is over
    sleeps,        \* the time.sleep calls of this run, as <<kind, idx, attempt>>
    files,         \* tmp_dir: the part files a successful save has written
    partial,       \* tmp_dir: the part files a failed save may have left
    app,           \* position of the Convert to MP3 handler ("none": no handler)
    delivered      \* the part files handed to playback / download

vars == <<pc, raw, text_content, prev, ncleans, text, max_chars, sentences, si,
          parts, cur, retries, idx, attempt, out_paths, last_err, wait, err,
          inflight, calls, script, run, first, sleeps, files, partial, app,
          delivered>>

cleanVars == <<raw, text_content, prev, ncleans>>
chunkVars == <<text, max_chars, sentences, si, parts, cur>>
fsVars == <<sleeps, files, partial>>
appVars == <<app, delivered>>
genVars == <<retries, idx, attempt, out_paths, last_err, wait, err, inflight,
             calls, script, run, first, sleeps, files, partial, app, delivered>>

(***************************************************************************)
(* Bounds of the model.                                                    *)
(***************************************************************************)
MaxRawLen == 7      \* longest raw text handed to clean_extracted
MaxCleans == 2      \* clean_extracted is applied at most this many times
MaxTextLen == 7     \* longest normalized text handed to chunk_text_for_tts
MaxChars == 3       \* largest max_chars tried
MaxRetries == 2     \* largest retries tried

(***************************************************************************)
(* Characters and character classes of the regular expressions.            *)
(***************************************************************************)
NL == "\n"
SP == " "
HY == "-"
WordChars == {"a", "b"}            \* \w
WhiteChars == {SP, NL}             \* \s
Punct == {".", "!", "?"}           \* [.!?]

IsWord(c) == c \in WordChars
IsSpace(c) == c \in WhiteChars

\* All sequences over alphabet of length at most n.
SeqsUpTo(alphabet, n) == UNION {[1..k -> alphabet] : k \in 0..n}

RECURSIVE Concat(_)
\* "".join(ss)
Concat(ss) == IF ss = <<>> THEN <<>> ELSE Head(ss) \o Concat(Tail(ss))

RECURSIVE JoinSpace(_)
\* " ".join(ss)
JoinSpace(ss) ==
    IF ss = <<>> THEN <<>>
    ELSE IF Len(ss) = 1 THEN ss[1]
    ELSE ss[1] \o <<SP>> \o JoinSpace(Tail(ss))

\* The characters of s that are not whitespace, in order.
NoSpace(s) == SelectSeq(s, LAMBDA c : ~IsSpace(c))

RECURSIVE RunEnd(_, _, _)
\* First index >= i of s whose character is not in class (Len(s)+1 if none):
\* the end of a greedy class+ match starting at i.
RunEnd(s, i, class) ==
    IF i > Len(s) \/ s[i] \notin class THEN i ELSE RunEnd(s, i + 1, class)

\* str.strip()
Strip(s) ==
    LET keep == {i \in 1..Len(s) : ~IsSpace(s[i])}
    IN  IF keep = {} THEN <<>>
        ELSE LET lo == CHOOSE i \in keep : \A j \in keep : i <= j
                 hi == CHOOSE i \in keep : \A j \in keep : j <= i
             IN  SubSeq(s, lo, hi)

(***************************************************************************)
(* clean_extracted (app.py:16-22)                                          *)
(***************************************************************************)
RECURSIVE JoinFrom(_, _)
\* re.sub(r"(\w+)-\n(\w+)", r"\1\2", text), scanning from position pos.
\* Matches are leftmost and do not overlap: the scan resumes after the
\* second group of a match.
JoinFrom(s, pos) ==
    IF pos > Len(s) THEN <<>>
    ELSE IF ~IsWord(s[pos]) THEN <<s[pos]>> \o JoinFrom(s, pos + 1)
    ELSE LET j == RunEnd(s, pos, WordChars)
         IN  IF j + 2 <= Len(s) /\ s[j] = HY /\ s[j + 1] = NL /\ IsWord(s[j + 2])
             THEN LET k == RunEnd(s, j + 2, WordChars)
                  IN  SubSeq(s, pos, j - 1) \o SubSeq(s, j + 2, k - 1)
                          \o JoinFrom(s, k)
             ELSE SubSeq(s, pos, j - 1) \o JoinFrom(s, j)

JoinHyphenated(s) == JoinFrom(s, 1)

\* re.sub(r"\n(?=[^\n])", " ", text)
NewlinesToSpace(s) ==
    [i \in 1..Len(s) |->
        IF s[i] = NL /\ i < Len(s) /\ s[i + 1] # NL THEN SP ELSE s[i]]

RECURSIVE CollapseFrom(_, _)
\* re.sub(r"\s+", " ", text), scanning from position pos.
CollapseFrom(s, pos) ==
    IF pos > Len(s) THEN <<>>
    ELSE IF IsSpace(s[pos])
         THEN <<SP>> \o CollapseFrom(s, RunEnd(s, pos, WhiteChars))
         ELSE <<s[pos]>> \o CollapseFrom(s, pos + 1)

\* Mutant: line 21 left out, whitespace runs are kept.
CollapseWhitespace_Kept(s) == s

CollapseWhitespace(s) == CollapseFrom(s, 1)

clean_extracted(s) ==
    IF s = <<>> THEN <<>>
    ELSE Strip(CollapseWhitespace(NewlinesToSpace(JoinHyphenated(s))))

(***************************************************************************)
(* Specification SpecClean: clean_extracted applied to a raw text, and     *)
(* applied again to its own result.                                        *)
(***************************************************************************)
RawAlphabet == {"a", HY, NL, SP}

\* None, as the value of last_err.  An exception raised by the remote call is
\* [kind, call]: what it is and the call (by its number in the script) that
\* raised it.
NoErr == [kind |-> "None", call |-> 0]

\* No RuntimeError raised.  The RuntimeError of line 95 is the values its
\* message is formatted from.
NoFailure == [idx |-> 0, retries |-> 0, last_err |-> NoErr]

\* The record of the first run, before it is over.
NoFirst == [pc |-> "none", calls |-> <<>>, out_paths |-> <<>>, err |-> NoFailure,
            wait |-> 0]

\* The locals of generate_gtts_parts before it runs.
GenIdle ==
    /\ retries = 0 /\ idx = 0 /\ attempt = 0 /\ out_paths = <<>>
    /\ last_err = NoErr /\ wait = 0 /\ err = NoFailure /\ inflight = {}
    /\ calls = <<>> /\ script = <<>> /\ run = 1 /\ first = NoFirst
    /\ sleeps = <<>> /\ files = {} /\ partial = {}
    /\ app = "none" /\ delivered = <<>>

Idle ==
    /\ text = <<>> /\ max_chars = 1 /\ sentences = <<>> /\ si = 1
    /\ parts = <<>> /\ cur = <<>>

InitClean ==
    /\ pc = "clean"
    /\ raw \in SeqsUpTo(RawAlphabet, MaxRawLen)
    /\ text_content = raw
    /\ prev = raw
    /\ ncleans = 0
    /\ Idle
    /\ GenIdle

\* text_content = clean_extracted(text_content)   (app.py:123)
Clean ==
    /\ pc = "clean"
    /\ ncleans < MaxCleans
    /\ prev' = text_content
    /\ text_content' = clean_extracted(text_content)
    /\ ncleans' = ncleans + 1
    /\ UNCHANGED <<pc, raw>>
    /\ UNCHANGED chunkVars
    /\ UNCHANGED genVars

NextClean == Clean

SpecClean == InitClean /\ [][NextClean]_vars

(***************************************************************************)
(* chunk_text_for_tts (app.py:24-45)                                       *)
(***************************************************************************)
RECURSIVE SplitFrom(_, _, _)
\* re.split(r'(?<=[.!?])\s+', text): the sentence that starts at start is
\* being scanned at pos.  A separator is a whitespace run that begins right
\* after one of . ! ? ; it is consumed.
SplitFrom(s, start, pos) ==
    IF pos > Len(s) THEN <<SubSeq(s, start, Len(s))>>
    ELSE IF IsSpace(s[pos]) /\ pos > 1 /\ s[pos - 1] \in Punct
         THEN LET e == RunEnd(s, pos, WhiteChars)
              IN  <<SubSeq(s, start, pos - 1)>> \o SplitFrom(s, e, e)
         ELSE SplitFrom(s, start, pos + 1)

SplitSentences(s) == SplitFrom(s, 1, 1)

\* Number of pieces of range(0, n, m)
NumPieces(n, m) == (n + m - 1) \div m

\* Mutant: the pieces are one character wider than max_chars.
HardSplit_Wide(s, m) ==
    [k \in 1..NumPieces(Len(s), m + 1) |->
        Strip(SubSeq(s, (k - 1) * (m + 1) + 1,
                     IF k * (m + 1) < Len(s) THEN k * (m + 1) ELSE Len(s)))]

\* [s[i:i+max_chars].strip() for i in range(0, len(s), max_chars)]   (lines 36-37)
HardSplit(s, m) ==
    [k \in 1..NumPieces(Len(s), m) |->
        Strip(SubSeq(s, (k - 1) * m + 1, IF k * m < Len(s) THEN k * m ELSE Len(s)))]

\* The segment flushed at line 32-33, as a sequence of zero or one segment.
Flushed(c) == IF c # <<>> THEN <<Strip(c)>> ELSE <<>>

\* Mutant: a sentence that does not fit is appended to cur all the same.
ChunkBody_NoFlush(st, s, m) ==
    [parts |-> st.parts, cur |-> Strip(st.cur \o <<SP>> \o s)]

\* Mutant: the accumulator is dropped instead of flushed.
ChunkBody_DropCur(st, s, m) ==
    IF Len(st.cur) + Len(s) + 1 > m
    THEN IF Len(s) > m
         THEN [parts |-> st.parts \o HardSplit(s, m), cur |-> <<>>]
         ELSE [parts |-> st.parts, cur |-> s]
    ELSE [parts |-> st.parts, cur |-> Strip(st.cur \o <<SP>> \o s)]

\* Mutant: a sentence that does not fit is emitted as a segment of its own.
ChunkBody_CloseEarly(st, s, m) ==
    IF Len(st.cur) + Len(s) + 1 > m
    THEN IF Len(s) > m
         THEN [parts |-> st.parts \o Flushed(st.cur) \o HardSplit(s, m),
               cur |-> <<>>]
         ELSE [parts |-> Append(st.parts \o Flushed(st.cur), s), cur |-> <<>>]
    ELSE [parts |-> st.parts, cur |-> Strip(st.cur \o <<SP>> \o s)]

\* Mutant: a sentence that does not fit is emitted ahead of the accumulator.
ChunkBody_EmitFirst(st, s, m) ==
    IF Len(st.cur) + Len(s) + 1 > m
    THEN IF Len(s) > m
         THEN [parts |-> st.parts \o Flushed(st.cur) \o HardSplit(s, m),
               cur |-> <<>>]
         ELSE [parts |-> Append(st.parts, s), cur |-> st.cur]
    ELSE [parts |-> st.parts, cur |-> Strip(st.cur \o <<SP>> \o s)]

\* One iteration of the for loop (lines 31-42) on sentence s, from the locals
\* st = [parts, cur].
ChunkBody(st, s, m) ==
    IF Len(st.cur) + Len(s) + 1 > m
    THEN IF Len(s) > m
         THEN [parts |-> st.parts \o Flushed(st.cur) \o HardSplit(s, m),
               cur |-> <<>>]
         ELSE [parts |-> st.parts \o Flushed(st.cur), cur |-> s]
    ELSE [parts |-> st.parts, cur |-> Strip(st.cur \o <<SP>> \o s)]

RECURSIVE ChunkFold(_, _, _)
\* The locals after the for loop has run over the sentences ss.
ChunkFold(st, ss, m) ==
    IF ss = <<>> THEN st ELSE ChunkFold(ChunkBody(st, Head(ss), m), Tail(ss), m)

\* Lines 43-45.
ChunkResult(st) == IF st.cur # <<>> THEN Append(st.parts, st.cur) ELSE st.parts

\* Mutant: an empty text yields one blank part.
chunk_text_for_tts_Blank(s, m) ==
    IF s = <<>> THEN << <<>> >>
    ELSE ChunkResult(ChunkFold([parts |-> <<>>, cur |-> <<>>], SplitSentences(s), m))

chunk_text_for_tts(s, m) ==
    IF s = <<>> THEN <<>>
    ELSE ChunkResult(ChunkFold([parts |-> <<>>, cur |-> <<>>], SplitSentences(s), m))

(***************************************************************************)
(* Specification SpecChunk: chunk_text_for_tts run on a normalized text,   *)
(* one step per iteration of its loop.                                     *)
(***************************************************************************)
ChunkAlphabet == {"a", "b", ".", SP}

NormalizedTexts ==
    {t \in SeqsUpTo(ChunkAlphabet, MaxTextLen) : clean_extracted(t) = t}

InitChunk ==
    /\ pc = "chunk"
    /\ raw = <<>> /\ text_content = <<>> /\ prev = <<>> /\ ncleans = 0
    /\ text \in NormalizedTexts
    /\ max_chars \in 1..MaxChars
    /\ sentences = <<>>
    /\ si = 1
    /\ parts = <<>>
    /\ cur = <<>>
    /\ GenIdle

\* Lines 25-29: return [] on an empty text, else split it into sentences.
ChunkStart ==
    /\ pc = "chunk"
    /\ IF text = <<>>
       THEN pc' = "chunked" /\ UNCHANGED sentences
       ELSE pc' = "loop" /\ sentences' = SplitSentences(text)
    /\ si' = 1
    /\ parts' = <<>>
    /\ cur' = <<>>
    /\ UNCHANGED <<text, max_chars>>
    /\ UNCHANGED cleanVars
    /\ UNCHANGED genVars

\* Lines 30-42: one iteration of the loop.
ChunkLoop ==
    /\ pc = "loop"
    /\ si <= Len(sentences)
    /\ LET st == ChunkBody([parts |-> parts, cur |-> cur], sentences[si], max_chars)
       IN  parts' = st.parts /\ cur' = st.cur
    /\ si' = si + 1
    /\ UNCHANGED <<pc, text, max_chars, sentences>>
    /\ UNCHANGED cleanVars
    /\ UNCHANGED genVars

\* Lines 43-45: the loop is over; the accumulator is emitted and parts returned.
ChunkEnd ==
    /\ pc = "loop"
    /\ si > Len(sentences)
    /\ parts' = ChunkResult([parts |-> parts, cur |-> cur])
    /\ pc' = "chunked"
    /\ UNCHANGED <<text, max_chars, sentences, si, cur>>
    /\ UNCHANGED cleanVars
    /\ UNCHANGED genVars

NextChunk == ChunkStart \/ ChunkLoop \/ ChunkEnd

SpecChunk == InitChunk /\ [][NextChunk]_vars


(***************************************************************************)
(* generate_gtts_parts (app.py:48-96)                                      *)
(*                                                                         *)
(* Durations are in tenths of a second.  The remote call gTTS(...).save()  *)
(* answers "ok", or raises a gTTSError whose message holds 429 ("429"), a  *)
(* gTTSError without it ("gtts") or another Exception ("exc").  The        *)
(* answers form a script, one per call in call order; a second run of the  *)
(* function replays the script of the first.                               *)
(***************************************************************************)
base_pause == 15
jitter == 10
per_chunk_delay == 8

Responses == {"ok", "429", "gtts", "exc"}

RECURSIVE Pow2(_)
\* 2 ** n
Pow2(n) == IF n <= 0 THEN 1 ELSE 2 * Pow2(n - 1)

\* random.uniform(0, hi): a float of the interval [0, hi], to the nearest tenth
\* of a second (the unit of every time in this module).
Uniform(hi) == 0..hi

\* os.path.join(tmp_dir, f"part_{idx:03d}.mp3")   (line 69)
OutPath(i) == <<"part", i>>

\* The inputs of the runs: a text of three sentences (or none) and bounds
\* max_chars_per_call that cut it into three, two and one segments.
GenTexts == {<<>>, <<"a", ".", SP, "b", ".", SP, "a", ".">>}
GenMaxChars == {2, 5, 8}

Init ==
    /\ pc = "gen"
    /\ raw = <<>> /\ text_content = <<>> /\ prev = <<>> /\ ncleans = 0
    /\ text \in GenTexts
    /\ max_chars \in GenMaxChars
    /\ sentences = <<>> /\ si = 1 /\ parts = <<>> /\ cur = <<>>
    /\ retries \in 0..MaxRetries
    /\ idx = 0 /\ attempt = 0 /\ out_paths = <<>>
    /\ last_err = NoErr /\ wait = 0 /\ err = NoFailure /\ inflight = {}
    /\ calls = <<>> /\ script = <<>> /\ run = 1 /\ first = NoFirst
    /\ sleeps = <<>> /\ files = {} /\ partial = {}
    /\ app = "none" /\ delivered = <<>>

\* The remote call in flight is answered r: the script's answer for this call,
\* or any answer where the script does not reach.
Answers(r) ==
    IF app = "convert" THEN script' = script
    ELSE IF Len(calls) <= Len(script)
    THEN script[Len(calls)] = r /\ script' = script
    ELSE script' = Append(script, r)

\* The exception raised by the call in flight.
Raised(kind) == [kind |-> kind, call |-> Len(calls)]

\* Lines 63-66: return [] on an empty text, else cut the text into parts.
GenStart ==
    /\ pc = "gen"
    /\ IF text = <<>>
       THEN pc' = "returned" /\ UNCHANGED <<parts, idx>>
       ELSE /\ parts' = chunk_text_for_tts(text, max_chars)
            /\ idx' = 1
            /\ pc' = "segments"
    /\ out_paths' = <<>>
    /\ UNCHANGED <<text, max_chars, sentences, si, cur>>
    /\ UNCHANGED <<retries, attempt, last_err, wait, err, inflight, calls,
                   script, run, first>>
    /\ UNCHANGED cleanVars
    /\ UNCHANGED fsVars
    /\ UNCHANGED appVars

\* Lines 68-70: the outer loop takes the next chunk.
NextSegment ==
    /\ pc = "segments"
    /\ idx <= Len(parts)
    /\ last_err' = NoErr
    /\ attempt' = 1
    /\ pc' = "attempts"
    /\ UNCHANGED <<retries, idx, out_paths, wait, err, inflight, calls, script,
                   run, first>>
    /\ UNCHANGED chunkVars
    /\ UNCHANGED cleanVars
    /\ UNCHANGED fsVars
    /\ UNCHANGED appVars

\* Line 96: the outer loop is over.
Return ==
    /\ pc = "segments"
    /\ idx > Len(parts)
    /\ pc' = "returned"
    /\ UNCHANGED genVars
    /\ UNCHANGED chunkVars
    /\ UNCHANGED cleanVars

\* Lines 71-74: the inner loop has an attempt left and issues the remote call.
Attempt ==
    /\ pc = "attempts"
    /\ attempt <= retries
    /\ inflight' = inflight \cup {<<idx, attempt>>}
    /\ calls' = Append(calls, <<idx, attempt>>)
    /\ pc' = "calling"
    /\ UNCHANGED <<retries, idx, attempt, out_paths, last_err, wait, err,
                   script, run, first>>
    /\ UNCHANGED chunkVars
    /\ UNCHANGED cleanVars
    /\ UNCHANGED fsVars
    /\ UNCHANGED appVars

\* Line 71: range(1, retries + 1) is used up.
AttemptsOver ==
    /\ pc = "attempts"
    /\ attempt > retries
    /\ pc' = "check"
    /\ UNCHANGED genVars
    /\ UNCHANGED chunkVars
    /\ UNCHANGED cleanVars

\* Mutant: line 76 left out, a success is not followed by the delay.
Success_NoDelay ==
    /\ pc = "calling"
    /\ Answers("ok")
    /\ inflight' = inflight \ {<<idx, attempt>>}
    /\ files' = files \cup {OutPath(idx)}
    /\ partial' = partial \ {OutPath(idx)}
    /\ pc' = "delay"
    /\ UNCHANGED <<retries, idx, attempt, out_paths, last_err, wait, err,
                   calls, run, first, sleeps>>
    /\ UNCHANGED chunkVars
    /\ UNCHANGED cleanVars
    /\ UNCHANGED appVars

\* Lines 74-76: the call succeeds; sleep per_chunk_delay.
Success ==
    /\ pc = "calling"
    /\ Answers("ok")
    /\ inflight' = inflight \ {<<idx, attempt>>}
    /\ files' = files \cup {OutPath(idx)}
    /\ partial' = partial \ {OutPath(idx)}
    /\ sleeps' = Append(sleeps, <<"delay", idx, attempt>>)
    /\ pc' = "delay"
    /\ UNCHANGED <<retries, idx, attempt, out_paths, last_err, wait, err,
                   calls, run, first>>
    /\ UNCHANGED chunkVars
    /\ UNCHANGED cleanVars
    /\ UNCHANGED appVars

\* Mutant: line 78 left out, last_err keeps the error of an earlier attempt.
AfterDelay_KeepErr ==
    /\ pc = "delay"
    /\ out_paths' = Append(out_paths, OutPath(idx))
    /\ pc' = "check"
    /\ UNCHANGED <<retries, idx, attempt, last_err, wait, err, inflight, calls,
                   script, run, first>>
    /\ UNCHANGED chunkVars
    /\ UNCHANGED cleanVars
    /\ UNCHANGED fsVars
    /\ UNCHANGED appVars

\* Lines 77-79: the sleep is over; record the output, clear last_err, break.
AfterDelay ==
    /\ pc = "delay"
    /\ out_paths' = Append(out_paths, OutPath(idx))
    /\ last_err' = NoErr
    /\ pc' = "check"
    /\ UNCHANGED <<retries, idx, attempt, wait, err, inflight, calls, script,
                   run, first>>
    /\ UNCHANGED chunkVars
    /\ UNCHANGED cleanVars
    /\ UNCHANGED fsVars
    /\ UNCHANGED appVars

\* Mutant: no backoff is slept after the last attempt of a segment.
Backoff_SkipLast(kind, w) ==
    /\ pc = "calling"
    /\ Answers(kind)
    /\ inflight' = inflight \ {<<idx, attempt>>}
    /\ last_err' = Raised(kind)
    /\ wait' = w
    /\ partial' = partial \cup {OutPath(idx)}
    /\ sleeps' = IF attempt = retries THEN sleeps
                 ELSE Append(sleeps, <<"backoff", idx, attempt>>)
    /\ UNCHANGED files
    /\ pc' = "backoff"
    /\ UNCHANGED <<retries, idx, attempt, out_paths, err, calls, run, first>>
    /\ UNCHANGED chunkVars
    /\ UNCHANGED cleanVars
    /\ UNCHANGED appVars

\* What the three except branches share: last_err = e, wait = w, sleep(wait).
Backoff(kind, w) ==
    /\ pc = "calling"
    /\ Answers(kind)
    /\ inflight' = inflight \ {<<idx, attempt>>}
    /\ last_err' = Raised(kind)
    /\ wait' = w
    /\ partial' = partial \cup {OutPath(idx)}
    /\ sleeps' = Append(sleeps, <<"backoff", idx, attempt>>)
    /\ UNCHANGED files
    /\ pc' = "backoff"
    /\ UNCHANGED <<retries, idx, attempt, out_paths, err, calls, run, first>>
    /\ UNCHANGED chunkVars
    /\ UNCHANGED cleanVars
    /\ UNCHANGED appVars

\* Mutant: a rate-limit failure waits no longer than any other failure.
RateLimited_Plain ==
    \E j \in Uniform(jitter * 2) : Backoff("429", base_pause * Pow2(attempt - 1) + j)

\* Lines 80-84, 87-88: gTTSError with 429 / Too Many Requests in its message.
RateLimited ==
    \E j \in Uniform(jitter * 2) : Backoff("429", base_pause * Pow2(attempt) + j)

\* Lines 80-82, 85-88: any other gTTSError.
GttsError ==
    \E j \in Uniform(jitter) : Backoff("gtts", base_pause * Pow2(attempt - 1) + j)

\* Lines 89-93: any other Exception.
OtherError ==
    \E j \in Uniform(jitter) : Backoff("exc", base_pause * Pow2(attempt - 1) + j)

\* Mutant: a rate-limit failure does not use up an attempt.
AfterBackoff_FreeRateLimit ==
    /\ pc = "backoff"
    /\ attempt' = IF last_err.kind = "429" THEN attempt ELSE attempt + 1
    /\ pc' = "attempts"
    /\ UNCHANGED <<retries, idx, out_paths, last_err, wait, err, inflight,
                   calls, script, run, first>>
    /\ UNCHANGED chunkVars
    /\ UNCHANGED cleanVars
    /\ UNCHANGED fsVars
    /\ UNCHANGED appVars

\* Mutant: the loop gives up once the wait drawn was a long one.
AfterBackoff_GiveUp ==
    /\ pc = "backoff"
    /\ attempt' = IF wait > base_pause * Pow2(attempt) THEN retries + 1
                  ELSE attempt + 1
    /\ pc' = "attempts"
    /\ UNCHANGED <<retries, idx, out_paths, last_err, wait, err, inflight,
                   calls, script, run, first>>
    /\ UNCHANGED chunkVars
    /\ UNCHANGED cleanVars
    /\ UNCHANGED fsVars
    /\ UNCHANGED appVars

\* Lines 88, 93 -> 71: the backoff sleep is over; the inner loop goes on.
AfterBackoff ==
    /\ pc = "backoff"
    /\ attempt' = attempt + 1
    /\ pc' = "attempts"
    /\ UNCHANGED <<retries, idx, out_paths, last_err, wait, err, inflight,
                   calls, script, run, first>>
    /\ UNCHANGED chunkVars
    /\ UNCHANGED cleanVars
    /\ UNCHANGED fsVars
    /\ UNCHANGED appVars

\* Mutant: the message names the chunk by its 0-based index.
Raise_ZeroBased ==
    /\ pc = "check"
    /\ last_err # NoErr
    /\ err' = [idx |-> idx - 1, retries |-> retries, last_err |-> last_err]
    /\ pc' = "raised"
    /\ UNCHANGED <<retries, idx, attempt, out_paths, last_err, wait, inflight,
                   calls, script, run, first>>
    /\ UNCHANGED chunkVars
    /\ UNCHANGED cleanVars
    /\ UNCHANGED fsVars
    /\ UNCHANGED appVars

\* Mutant: a chunk that failed is skipped and the loop goes on.
Raise_Skip ==
    /\ pc = "check"
    /\ last_err # NoErr
    /\ idx' = idx + 1
    /\ pc' = "segments"
    /\ UNCHANGED <<retries, attempt, out_paths, last_err, wait, err, inflight,
                   calls, script, run, first>>
    /\ UNCHANGED chunkVars
    /\ UNCHANGED cleanVars
    /\ UNCHANGED fsVars
    /\ UNCHANGED appVars

\* Lines 94-95: the chunk failed; raise RuntimeError.
Raise ==
    /\ pc = "check"
    /\ last_err # NoErr
    /\ err' = [idx |-> idx, retries |-> retries, last_err |-> last_err]
    /\ pc' = "raised"
    /\ UNCHANGED <<retries, idx, attempt, out_paths, last_err, wait, inflight,
                   calls, script, run, first>>
    /\ UNCHANGED chunkVars
    /\ UNCHANGED cleanVars
    /\ UNCHANGED fsVars
    /\ UNCHANGED appVars

\* Line 94 -> 68: no error is pending; on to the next chunk.
Proceed ==
    /\ pc = "check"
    /\ last_err = NoErr
    /\ idx' = idx + 1
    /\ pc' = "segments"
    /\ UNCHANGED <<retries, attempt, out_paths, last_err, wait, err, inflight,
                   calls, script, run, first>>
    /\ UNCHANGED chunkVars
    /\ UNCHANGED cleanVars
    /\ UNCHANGED fsVars
    /\ UNCHANGED appVars

\* The function is called again with the same arguments (lines 110, 137: the
\* script reruns on the next click) against the same scripted remote.
Rerun ==
    /\ pc \in {"returned", "raised"}
    /\ run = 1
    /\ app = "none"
    /\ sleeps' = <<>> /\ files' = {} /\ partial' = {}
    /\ first' = [pc |-> pc, calls |-> calls, out_paths |-> out_paths,
                 err |-> err, wait |-> wait]
    /\ run' = 2
    /\ pc' = "gen"
    /\ parts' = <<>>
    /\ idx' = 0 /\ attempt' = 0 /\ out_paths' = <<>>
    /\ last_err' = NoErr /\ wait' = 0 /\ err' = NoFailure /\ inflight' = {}
    /\ calls' = <<>>
    /\ UNCHANGED <<retries, script>>
    /\ UNCHANGED <<text, max_chars, sentences, si, cur>>
    /\ UNCHANGED cleanVars
    /\ UNCHANGED appVars

Next ==
    \/ GenStart \/ NextSegment \/ Return \/ Attempt \/ AttemptsOver
    \/ Success \/ AfterDelay \/ RateLimited \/ GttsError \/ OtherError
    \/ AfterBackoff \/ Raise \/ Proceed \/ Rerun

Spec == Init /\ [][Next]_vars


(***************************************************************************)
(* The Convert to MP3 handler around generate_gtts_parts (app.py:134-176). *)
(*                                                                         *)
(* The handler passes retries = 6.  The slider's 600..4000 characters are  *)
(* scaled to GenMaxChars, so that the short texts of the model still make  *)
(* several segments.  tmp_dir is fresh (mkdtemp) and holds files and, of   *)
(* partial, whatever the failed saves left behind.  The answers of the     *)
(* remote are not kept in script here: nothing replays them.               *)
(***************************************************************************)
\* retries=6   (line 139)
handler_retries == 6

InitApp ==
    /\ pc = "gen"
    /\ raw = <<>> /\ text_content = <<>> /\ prev = <<>> /\ ncleans = 0
    /\ text \in GenTexts \ {<<>>}
    /\ max_chars \in GenMaxChars
    /\ sentences = <<>> /\ si = 1 /\ parts = <<>> /\ cur = <<>>
    /\ retries = handler_retries
    /\ idx = 0 /\ attempt = 0 /\ out_paths = <<>>
    /\ last_err = NoErr /\ wait = 0 /\ err = NoFailure /\ inflight = {}
    /\ calls = <<>> /\ script = <<>> /\ run = 1 /\ first = NoFirst
    /\ sleeps = <<>> /\ files = {} /\ partial = {}
    /\ app = "convert" /\ delivered = <<>>

\* os.path.join(tmp_dir, f"{...}_mp3_parts.zip")   (line 165)
ZipPath == <<"zip", 0>>

\* Lines 143-152: generate_gtts_parts raised; report, then remove the files
\* that os.listdir finds in tmp_dir (the files written and whichever partial
\* ones exist), in the order of the listing, and stop.  The whole loop is in
\* one try whose except passes (lines 150-151): the first removal that fails
\* ends the cleanup, and the file it failed on and every file after it in the
\* listing stay.  The listing's order is the file system's, so the files that
\* stay are any subset of those present, none if every removal succeeds.
HandlerFailed ==
    /\ app = "convert"
    /\ pc = "raised"
    /\ \E kept \in SUBSET (files \cup partial) :
          /\ files' = files \cap kept
          /\ partial' = partial \cap kept
    /\ app' = "stopped"
    /\ UNCHANGED <<pc, delivered>>
    /\ UNCHANGED <<retries, idx, attempt, out_paths, last_err, wait, err,
                   inflight, calls, script, run, first, sleeps>>
    /\ UNCHANGED chunkVars
    /\ UNCHANGED cleanVars

\* Lines 154-176: generate_gtts_parts returned; stop on an empty list, else
\* hand the parts to playback and download.
HandlerReturned ==
    /\ app = "convert"
    /\ pc = "returned"
    /\ IF out_paths = <<>>
       THEN app' = "stopped" /\ UNCHANGED delivered
       ELSE app' = "completed" /\ delivered' = out_paths
    /\ files' = IF Len(out_paths) > 1 THEN files \cup {ZipPath} ELSE files
    /\ UNCHANGED pc
    /\ UNCHANGED <<retries, idx, attempt, out_paths, last_err, wait, err,
                   inflight, calls, script, run, first, sleeps, partial>>
    /\ UNCHANGED chunkVars
    /\ UNCHANGED cleanVars

NextApp ==
    \/ GenStart \/ NextSegment \/ Return \/ Attempt \/ AttemptsOver
    \/ Success \/ AfterDelay \/ RateLimited \/ GttsError \/ OtherError
    \/ AfterBackoff \/ Raise \/ Proceed
    \/ HandlerFailed \/ HandlerReturned

SpecApp == InitApp /\ [][NextApp]_vars

(***************************************************************************)
(* Properties of clean_extracted.                                          *)
(***************************************************************************)
\* Positions i of s where a word character is followed by a hyphen, a line
\* break and a word character: the hyphen-broken words of s.
HyphenBreaks(s) ==
    {i \in 1..Len(s) :
        /\ i + 3 <= Len(s)
        /\ IsWord(s[i]) /\ s[i + 1] = HY /\ s[i + 2] = NL /\ IsWord(s[i + 3])}

\* s without the hyphen and the line break of each of its hyphen-broken words.
WithoutBreaks(s) ==
    LET drop == UNION {{i + 1, i + 2} : i \in HyphenBreaks(s)}
        F[i \in 0..Len(s)] ==
            IF i = 0 THEN <<>>
            ELSE IF i \in drop THEN F[i - 1] ELSE Append(F[i - 1], s[i])
    IN  F[Len(s)]

\* No line break, no run of two whitespace characters, no whitespace at
\* either end.
WhitespaceNormal(s) ==
    /\ \A i \in 1..Len(s) : s[i] # NL
    /\ \A i \in 1..(Len(s) - 1) : ~(IsSpace(s[i]) /\ IsSpace(s[i + 1]))
    /\ s # <<>> => (~IsSpace(s[1]) /\ ~IsSpace(s[Len(s)]))

\* C7: the output of clean_extracted has no line break, no run of two or
\* more whitespace characters, no leading or trailing whitespace, and every
\* hyphen-broken word of the input has lost its hyphen and line break, back
\* to back breaks included: the non-whitespace characters of the output are
\* those of the input without the breaks.
C7_NoBrokenWordRemains ==
    ncleans = 1 =>
        /\ WhitespaceNormal(text_content)
        /\ NoSpace(text_content) = NoSpace(WithoutBreaks(raw))

\* C8: clean_extracted is idempotent: applied to its own output it returns
\* that output.
C8_Idempotent == ncleans = 2 => text_content = prev

\* A second call was made on the output of a first call that changed a text
\* holding a hyphen break, a line break and a run of spaces.
C8_Witness ==
    /\ ncleans = 2
    /\ prev # raw
    /\ HyphenBreaks(raw) # {}
    /\ \E i \in 1..(Len(raw) - 1) : IsSpace(raw[i]) /\ IsSpace(raw[i + 1])
    /\ Len(prev) >= 3

(***************************************************************************)
(* Properties of chunk_text_for_tts.                                       *)
(***************************************************************************)
\* ceil(a / b) for a >= 0, b >= 1
Ceil(a, b) == CHOOSE q \in 0..a : (q - 1) * b < a /\ a <= q * b

\* Some sentence of the text is longer than max_chars: a hard split happens.
SomeLongSentence == \E k \in 1..Len(sentences) : Len(sentences[k]) > max_chars

\* C4: every segment returned by chunk_text_for_tts for a normalized text and
\* max_chars >= 1 has length <= max_chars.
C4_SegmentsWithinMaxChars ==
    pc = "chunked" => \A i \in 1..Len(parts) : Len(parts[i]) <= max_chars

\* The text returned holds a sentence of exactly max_chars characters and an
\* over-long one, and the result has a segment of several sentences or pieces.
C4_Witness ==
    /\ pc = "chunked"
    /\ \E k \in 1..Len(sentences) : Len(sentences[k]) = max_chars
    /\ SomeLongSentence
    /\ Len(parts) >= 3
    /\ \E i \in 1..Len(parts) : Len(parts[i]) = max_chars

\* C5: the segments joined by single spaces reproduce the normalized text:
\* exactly when no sentence was hard-split, and otherwise up to whitespace (no
\* other character is lost, duplicated or reordered).
C5_JoinReproducesText ==
    pc = "chunked" =>
        /\ NoSpace(JoinSpace(parts)) = NoSpace(text)
        /\ ~SomeLongSentence => JoinSpace(parts) = text

\* A text of several sentences, one of them hard-split, whose segments joined
\* by spaces differ from the text in whitespace.
C5_Witness ==
    /\ pc = "chunked"
    /\ Len(sentences) >= 2
    /\ SomeLongSentence
    /\ JoinSpace(parts) # text
    /\ \E i \in 1..Len(parts) : \E j \in 1..Len(parts[i]) : parts[i][j] = SP

\* The loop is about to process an over-long sentence.
AtLongSentence ==
    pc = "loop" /\ si <= Len(sentences) /\ Len(sentences[si]) > max_chars

\* The segments the step appends for the sentence itself (after the flush of
\* the accumulator).
PiecesAppended(before, flushed, after) ==
    SubSeq(after, Len(before) + Len(flushed) + 1, Len(after))

\* Some max_chars-wide window of s begins or ends with whitespace.
SpaceAtPieceEdge(s, m) ==
    \E i \in 1..Len(s) : IsSpace(s[i]) /\ (i % m = 0 \/ i % m = 1 \/ m = 1)

\* C6 as stated: a sentence of length len > max_chars is emitted as exactly
\* ceil(len / max_chars) segments, each of length <= max_chars, whose direct
\* concatenation equals the sentence character for character.
C6_PiecesConcatToSentence ==
    [][AtLongSentence =>
        LET s == sentences[si]
            pieces == PiecesAppended(parts, Flushed(cur), parts')
        IN  /\ Len(pieces) = Ceil(Len(s), max_chars)
            /\ \A k \in 1..Len(pieces) : Len(pieces[k]) <= max_chars
            /\ Concat(pieces) = s]_vars

\* C6 as amended: a sentence of length len > max_chars is emitted as exactly
\* ceil(len / max_chars) segments, each of length <= max_chars, whose direct
\* concatenation equals the sentence up to whitespace at the edges of the
\* pieces: the non-whitespace characters are those of the sentence in order,
\* and the concatenation is exact when no piece begins or ends with whitespace.
C6_PiecesConcatUpToEdgeSpace ==
    [][AtLongSentence =>
        LET s == sentences[si]
            pieces == PiecesAppended(parts, Flushed(cur), parts')
        IN  /\ Len(pieces) = Ceil(Len(s), max_chars)
            /\ \A k \in 1..Len(pieces) : Len(pieces[k]) <= max_chars
            /\ NoSpace(Concat(pieces)) = NoSpace(s)
            /\ ~SpaceAtPieceEdge(s, max_chars) => Concat(pieces) = s]_vars

\* An over-long sentence holding a space has just been hard-split, after the
\* accumulator was flushed.
C6_Witness ==
    /\ pc = "loop"
    /\ si > 2
    /\ Len(sentences[si - 1]) > max_chars
    /\ \E i \in 1..Len(sentences[si - 1]) : sentences[si - 1][i] = SP
    /\ cur = <<>>
    /\ Len(parts) >= 1 + Ceil(Len(sentences[si - 1]), max_chars)

(***************************************************************************)
(* Properties of generate_gtts_parts.                                      *)
(***************************************************************************)
Done == pc \in {"returned", "raised"}

\* The numbers (in call order) of the calls made on segment j in this run.
CallsOn(j) == {n \in 1..Len(calls) : calls[n][1] = j}

\* Call n of this run has been answered.
Answered(n) == n < Len(calls) \/ (n = Len(calls) /\ pc # "calling")

\* The positions of out_paths that hold the output of segment j.
OutputsOf(j) == {i \in 1..Len(out_paths) : out_paths[i] = OutPath(j)}

\* C1: generate_gtts_parts ends by raising or by returning exactly one output
\* per segment, the i-th being that of the i-th segment; it never returns
\* fewer outputs than segments.
C1_AllOrFailure ==
    /\ pc = "returned" =>
          /\ Len(out_paths) = Len(parts)
          /\ \A i \in 1..Len(parts) : out_paths[i] = OutPath(i)
    /\ pc = "raised" => err # NoFailure

\* Segment j was attempted and every attempt on it failed.
FailedEveryAttempt(j) ==
    /\ CallsOn(j) # {}
    /\ \A n \in CallsOn(j) : Answered(n) /\ script[n] # "ok"

\* C2: when every attempt on segment j fails, the run makes exactly retries
\* attempts on j, attempts no later segment, returns no list and raises a
\* failure naming j, retries and the error of the last attempt.
C2_ExhaustionRaises ==
    \A j \in 1..Len(parts) :
        (Done /\ FailedEveryAttempt(j)) =>
            /\ Cardinality(CallsOn(j)) = retries
            /\ \A n \in 1..Len(calls) : calls[n][1] <= j
            /\ calls[Len(calls)] = <<j, retries>>
            /\ pc = "raised"
            /\ err = [idx |-> j, retries |-> retries,
                      last_err |-> [kind |-> script[Len(calls)],
                                    call |-> Len(calls)]]

\* The second of three segments failed all its attempts, with errors of
\* different kinds, and the failure was raised.
C2_Witness ==
    /\ pc = "raised"
    /\ Len(parts) = 3
    /\ retries = 2
    /\ FailedEveryAttempt(2)
    /\ \E n \in CallsOn(2) : script[n] # script[Len(calls)]
    /\ Len(out_paths) = 1

\* The remote failed rate-limited on attempts 1..k-1 on segment j and
\* succeeded on attempt k.
SucceededAfterRateLimits(j, k) ==
    \E n \in CallsOn(j) :
        /\ calls[n] = <<j, k>>
        /\ Answered(n) /\ script[n] = "ok"
        /\ \A m \in CallsOn(j) : m < n => script[m] = "429"
        /\ Cardinality({m \in CallsOn(j) : m < n}) = k - 1

\* C3: when the call on a segment fails rate-limited on attempts 1..k-1 and
\* succeeds on attempt k <= retries, exactly k calls are made for it, exactly
\* one output is recorded for it (once the delay after the call is over) and
\* the run goes on to the next segment without raising.
C3_RetryThenSuccess ==
    \A j \in 1..Len(parts) : \A k \in 1..retries :
        (SucceededAfterRateLimits(j, k) /\ ~(pc = "delay" /\ idx = j)) =>
            /\ Cardinality(CallsOn(j)) = k
            /\ OutputsOf(j) = {j}
            /\ idx >= j
            /\ idx = j => (pc = "check" /\ last_err = NoErr)
            /\ pc = "raised" => err.idx > j

\* The first segment succeeded on its second attempt after a rate-limit
\* failure and the run has gone on to the second segment.
C3_Witness ==
    /\ SucceededAfterRateLimits(1, 2)
    /\ idx = 2
    /\ pc = "calling"
    /\ Len(out_paths) = 1

\* The state part of C9.
C9_OneCallInOrder ==
    /\ Cardinality(inflight) <= 1
    /\ pc = "calling" <=> inflight = {<<idx, attempt>>}
    /\ pc # "calling" => inflight = {}
    /\ \A n \in 1..Len(calls) :
          LET j == calls[n][1]
          IN  /\ j \in 1..Len(parts)
              /\ n > 1 => calls[n - 1][1] \in {j - 1, j}
              /\ n = 1 => j = 1
              /\ (n > 1 /\ calls[n - 1][1] = j - 1) => script[n - 1] = "ok"
    /\ pc = "calling" =>
          /\ Len(out_paths) = idx - 1
          /\ \A i \in 1..(idx - 1) : out_paths[i] = OutPath(i)

\* The step part of C9: within a run, out_paths changes only by the output of
\* the current segment being appended, after a call that succeeded.
C9_AppendOnly ==
    run' = run =>
        \/ out_paths' = out_paths
        \/ /\ out_paths' = Append(out_paths, OutPath(idx))
           /\ script[Len(calls)] = "ok"
           /\ calls[Len(calls)][1] = idx

\* C9: remote calls are issued one at a time and in segment order: at most one
\* call is in flight, the first attempt on a segment comes only after the
\* segment before it succeeded and its output was appended, and out_paths only
\* grows by appending the output of the current segment.
C9_SequentialSingleWriter == []C9_OneCallInOrder /\ [][C9_AppendOnly]_vars

\* A call on the third segment is in flight after failures on the first two
\* segments were retried.
C9_Witness ==
    /\ pc = "calling"
    /\ idx = 3
    /\ inflight = {<<3, attempt>>}
    /\ Len(out_paths) = 2
    /\ Len(calls) >= 5

\* C10: a second run over the same segments, retry policy and scripted
\* responses, with jitter drawn afresh, makes the same attempts on every
\* segment and ends as the first did: same outputs returned, or the same
\* failure raised.
C10_JitterChangesTimingOnly ==
    run = 2 =>
        /\ Len(calls) <= Len(first.calls)
        /\ calls = SubSeq(first.calls, 1, Len(calls))
        /\ Done =>
              /\ calls = first.calls
              /\ pc = first.pc
              /\ out_paths = first.out_paths
              /\ err = first.err

\* Both runs returned two outputs after the same three calls, and the waits
\* drawn in the two runs differ.
C10_Witness ==
    /\ run = 2
    /\ pc = "returned"
    /\ first.pc = "returned"
    /\ Len(out_paths) = 2
    /\ Len(calls) >= 3
    /\ wait # first.wait
    /\ wait > 0 /\ first.wait > 0

(***************************************************************************)
(* Properties of the handler and of the retry loop.                        *)
(***************************************************************************)
\* C11: when generate_gtts_parts fails for the batch, the handler stops with
\* no audio part left in tmp_dir (neither a completed part nor a file left by
\* a failed attempt) and nothing delivered to packaging or playback.
C11_FailureDiscardsParts ==
    pc = "raised" =>
        /\ delivered = <<>>
        /\ app # "completed"
        /\ app = "stopped" => (files = {} /\ partial = {})

\* The calls on segment j that have been answered by a failure of any kind.
FailedCallsOn(j) ==
    {n \in CallsOn(j) : Answered(n) /\ script[n] \in {"429", "gtts", "exc"}}

\* The state part of C12: at the head of the attempt loop the attempts made on
\* the segment are the failures so far, whatever their kinds; no segment
\* receives more than retries calls; the run makes at most segments x retries.
C12_WithinBudget ==
    /\ pc = "attempts" =>
          /\ Cardinality(CallsOn(idx)) = attempt - 1
          /\ FailedCallsOn(idx) = CallsOn(idx)
    /\ pc = "backoff" => Cardinality(FailedCallsOn(idx)) = attempt
    /\ \A j \in 1..Len(parts) : Cardinality(CallsOn(j)) <= retries
    /\ Len(calls) <= Len(parts) * retries

\* The step part of C12: at the head of the attempt loop the segment is
\* attempted (again) if and only if fewer than retries attempts were made.
C12_RetryIffBudgetLeft ==
    pc = "attempts" =>
        (pc' = "calling" <=> Cardinality(CallsOn(idx)) < retries)

\* A measure of the work a run has left: the segments still to do, then the
\* attempts the current segment has left, then the position within an attempt.
SegmentSpan == 4 * (retries + 1) + 4

WorkLeft ==
    LET n == IF pc = "gen" THEN Len(chunk_text_for_tts(text, max_chars))
             ELSE Len(parts)
        base == (n - idx) * SegmentSpan
        try == 4 * (retries + 1 - attempt) + 5
    IN  CASE pc = "gen" -> n * SegmentSpan + 2
          [] pc = "segments" -> base + SegmentSpan + 1
          [] pc = "attempts" -> base + try
          [] pc = "calling" -> base + try - 1
          [] pc \in {"backoff", "delay"} -> base + try - 2
          [] pc = "check" -> base + 2
          [] OTHER -> 0

\* The step part of C12 about termination: every step of a run lowers WorkLeft.
C12_Progress == run' = run => WorkLeft' < WorkLeft

\* A run that has not ended is at a position whose branches cover every case:
\* the loop heads and the check at line 94 are two-way tests, a sleep ends, and
\* a call in flight gets one of the answers.
C12_CanStep ==
    \/ pc \in {"gen", "segments", "attempts", "delay", "backoff", "check"}
    \/ /\ pc = "calling"
       /\ Len(calls) <= Len(script) => script[Len(calls)] \in Responses

\* C12: every failure, rate-limited or not and in any interleaving, consumes
\* one attempt of the same per-segment budget; a segment is attempted again
\* after a failure iff fewer than retries attempts were made on it; no segment
\* receives more than retries calls, the run makes at most segments x retries
\* calls, and every run ends: each step lowers a natural-number measure and a
\* run that has not ended can take a step.
C12_BoundedRetriesTerminate ==
    /\ [](C12_WithinBudget /\ WorkLeft >= 0 /\ (~Done => C12_CanStep))
    /\ [][C12_RetryIffBudgetLeft /\ C12_Progress]_vars

\* A segment used up its budget on failures of the three kinds mixed, after an
\* earlier segment was retried, and the run ended.
C12_Witness ==
    /\ pc = "raised"
    /\ retries = 2
    /\ err.idx = 2
    /\ Cardinality(CallsOn(1)) = 2
    /\ \E n \in CallsOn(2) : script[n] = "429"
    /\ \E n \in CallsOn(2) : script[n] = "exc"
    /\ \E n \in CallsOn(1) : script[n] = "gtts"
    /\ Len(calls) = 4

\* C13: empty input produces no work and no error: chunk_text_for_tts of the
\* empty text is the empty sequence for every max_chars, clean_extracted of
\* the empty text is the empty text, and generate_gtts_parts on the empty text
\* returns the empty list at its first step with no remote call, no wait, no
\* file and no failure.
C13_EmptyInputNoWork ==
    /\ \A m \in (1..MaxChars) \cup GenMaxChars : chunk_text_for_tts(<<>>, m) = <<>>
    /\ clean_extracted(<<>>) = <<>>
    /\ text = <<>> =>
          /\ pc \in {"gen", "returned"}
          /\ out_paths = <<>>
          /\ calls = <<>> /\ inflight = {}
          /\ sleeps = <<>>
          /\ files = {} /\ partial = {}
          /\ err = NoFailure

\* The function has returned on the empty text.
C13_Witness == text = <<>> /\ pc = "returned" /\ out_paths = <<>> /\ run = 1

\* The least backoff wait after failed attempt a, and the width of its jitter.
BackoffBase(kind, a) ==
    IF kind = "429" THEN base_pause * Pow2(a) ELSE base_pause * Pow2(a - 1)

JitterWidth(kind) == IF kind = "429" THEN jitter * 2 ELSE jitter

\* The state part of C14: during the backoff after failed attempt a the wait
\* is the base of the failure's kind plus a draw from the kind's jitter range,
\* and a draw from a range of width zero is zero; an attempt after the first
\* was preceded by the backoff of the attempt before it.
C14_WaitOfKind ==
    /\ Uniform(0) = {0}
    /\ pc = "backoff" =>
          /\ wait - BackoffBase(last_err.kind, attempt)
                \in Uniform(JitterWidth(last_err.kind))
          /\ wait >= BackoffBase(last_err.kind, attempt)
          /\ wait <= BackoffBase(last_err.kind, attempt) + JitterWidth(last_err.kind)
          /\ sleeps[Len(sleeps)] = <<"backoff", idx, attempt>>
    /\ pc \in {"attempts", "calling"} /\ attempt > 1 =>
          sleeps[Len(sleeps)] = <<"backoff", idx, attempt - 1>>

\* The step part of C14: no call is issued while a backoff wait is going on,
\* and the wait ends before the attempt counter moves.
C14_NoCallDuringWait ==
    /\ calls' # calls /\ run' = run => pc = "attempts" /\ pc' = "calling"
    /\ pc = "backoff" /\ pc' # pc => pc' = "attempts" /\ attempt' = attempt + 1

\* C14: after failed attempt a no further attempt begins before a backoff wait
\* has completed; the wait is base_pause * 2^a plus a draw from [0, 2 * jitter]
\* for a rate-limit failure and base_pause * 2^(a-1) plus a draw from
\* [0, jitter] for any other failure, hence exactly the base at zero jitter.
C14_BackoffWait == []C14_WaitOfKind /\ [][C14_NoCallDuringWait]_vars

\* The longest rate-limit wait after attempt 2, following a plain failure.
C14_Witness ==
    /\ pc = "backoff"
    /\ attempt = 2
    /\ last_err.kind = "429"
    /\ wait = base_pause * 4 + 2 * jitter
    /\ script[Len(calls) - 1] = "gtts"

\* The sleeps of this run that are inter-segment delays.
Delays == {k \in 1..Len(sleeps) : sleeps[k][1] = "delay"}

\* The number of answered calls of this run.
NumAnswered == IF pc = "calling" THEN Len(calls) - 1 ELSE Len(calls)

\* The state part of C15: the k-th sleep follows the k-th answered call, on
\* the same segment and attempt, and is the inter-segment delay when the call
\* succeeded and a backoff when it failed; an output is recorded for each
\* delay that is over and for nothing else; the first attempt on a segment
\* after the first follows the delay of the segment before it.
C15_DelayPerSuccess ==
    /\ Len(sleeps) = NumAnswered
    /\ \A k \in 1..Len(sleeps) :
          sleeps[k] = <<IF script[k] = "ok" THEN "delay" ELSE "backoff",
                        calls[k][1], calls[k][2]>>
    /\ Len(out_paths) = Cardinality(Delays) - (IF pc = "delay" THEN 1 ELSE 0)
    /\ pc = "delay" =>
          /\ sleeps[Len(sleeps)] = <<"delay", idx, attempt>>
          /\ OutputsOf(idx) = {}
    /\ pc = "calling" /\ attempt = 1 /\ idx > 1 =>
          /\ sleeps[Len(sleeps)][1] = "delay"
          /\ sleeps[Len(sleeps)][2] = idx - 1
          /\ OutputsOf(idx - 1) # {}
    /\ pc = "returned" /\ Len(out_paths) = Len(parts) =>
          Cardinality(Delays) = Len(parts)

\* The step part of C15: the output is recorded by the step that ends the
\* delay, and by no other step.
C15_RecordAfterDelay ==
    out_paths' # out_paths /\ run' = run /\ pc # "gen" =>
        /\ pc = "delay"
        /\ out_paths' = Append(out_paths, OutPath(idx))
        /\ sleeps' = sleeps

\* C15: per_chunk_delay is waited exactly once after each successful remote
\* call and never after a failed one, before the output is recorded and before
\* the first attempt on the next segment; a run in which all n segments
\* succeed performs exactly n inter-segment delays.
C15_InterSegmentDelay == []C15_DelayPerSuccess /\ [][C15_RecordAfterDelay]_vars

\* All three segments succeeded, one of them after a failure.
C15_Witness ==
    /\ pc = "returned"
    /\ Len(parts) = 3
    /\ Len(out_paths) = 3
    /\ Cardinality(Delays) = 3
    /\ Len(sleeps) = 4

(***************************************************************************)
(* Further properties of chunk_text_for_tts.                               *)
(***************************************************************************)
RECURSIVE WholeSentenceLayout(_, _, _)
\* The segments ps lay out the sentences ss in order, each exactly once: a
\* sentence longer than m is the next Ceil(len, m) segments, which are its
\* pieces; any other segment is one or more of the next sentences, none
\* longer than m, joined by single spaces.
WholeSentenceLayout(ss, ps, m) ==
    IF ss = <<>> THEN ps = <<>>
    ELSE IF Len(Head(ss)) > m
    THEN LET n == Ceil(Len(Head(ss)), m)
         IN  /\ Len(ps) >= n
             /\ \A i \in 1..n : Len(ps[i]) <= m
             /\ NoSpace(Concat(SubSeq(ps, 1, n))) = NoSpace(Head(ss))
             /\ WholeSentenceLayout(Tail(ss), SubSeq(ps, n + 1, Len(ps)), m)
    ELSE /\ ps # <<>>
         /\ \E k \in 1..Len(ss) :
               /\ \A i \in 1..k : Len(ss[i]) <= m
               /\ Head(ps) = JoinSpace(SubSeq(ss, 1, k))
               /\ WholeSentenceLayout(SubSeq(ss, k + 1, Len(ss)), Tail(ps), m)

\* C16: except for the pieces of a hard-split sentence, every segment returned
\* by chunk_text_for_tts is a whole number of consecutive sentences joined by
\* single spaces; no sentence of length <= max_chars is divided between two
\* segments, and the sentences appear in their original order, each once.
C16_WholeSentences ==
    pc = "chunked" => WholeSentenceLayout(sentences, parts, max_chars)

\* Two sentences share the first segment and a third one follows in its own.
C16_Witness ==
    /\ pc = "chunked"
    /\ Len(sentences) = 3
    /\ Len(parts) = 2
    /\ parts[1] = JoinSpace(SubSeq(sentences, 1, 2))
    /\ parts[2] = sentences[3]

RECURSIVE GreedyLayout(_, _, _)
\* WholeSentenceLayout in which every whole-sentence segment is maximal: the
\* segment is the last one, or the sentence after it would not have fitted.
GreedyLayout(ss, ps, m) ==
    IF ss = <<>> THEN ps = <<>>
    ELSE IF Len(Head(ss)) > m
    THEN LET n == Ceil(Len(Head(ss)), m)
         IN  /\ Len(ps) >= n
             /\ GreedyLayout(Tail(ss), SubSeq(ps, n + 1, Len(ps)), m)
    ELSE /\ ps # <<>>
         /\ \E k \in 1..Len(ss) :
               /\ \A i \in 1..k : Len(ss[i]) <= m
               /\ Head(ps) = JoinSpace(SubSeq(ss, 1, k))
               /\ k < Len(ss) => Len(Head(ps)) + 1 + Len(ss[k + 1]) > m
               /\ GreedyLayout(SubSeq(ss, k + 1, Len(ss)), Tail(ps), m)

\* The step part of C17: a sentence that fits in the remaining budget is
\* appended to the current segment and no segment is closed.
C17_FittingSentenceAppended ==
    pc = "loop" /\ si <= Len(sentences)
        /\ Len(cur) + 1 + Len(sentences[si]) <= max_chars =>
        /\ parts' = parts
        /\ cur' = IF cur = <<>> THEN sentences[si]
                  ELSE cur \o <<SP>> \o sentences[si]

\* C17: segmentation is greedy-maximal: whenever a whole-sentence segment A is
\* immediately followed by a segment starting with sentence s, or by the
\* pieces of s, len(A) + 1 + len(s) > max_chars; a sentence that fits in the
\* remaining budget is always appended to the current segment.
C17_GreedyMaximal ==
    /\ [](pc = "chunked" => GreedyLayout(sentences, parts, max_chars))
    /\ [][C17_FittingSentenceAppended]_vars

\* A segment was closed before a sentence that misses the budget by one.
C17_Witness ==
    /\ pc = "chunked"
    /\ Len(sentences) = 2
    /\ parts = sentences
    /\ Len(parts[1]) + 1 + Len(parts[2]) = max_chars + 1

\* C18: for every non-empty normalized text and every max_chars >= 1,
\* chunk_text_for_tts emits no empty segment, the pieces of a hard-split
\* sentence at max_chars = 1 included.
C18_NoEmptySegment ==
    pc = "chunked" => \A i \in 1..Len(parts) : parts[i] # <<>>

(***************************************************************************)
(* Further properties of the retry loop.                                   *)
(***************************************************************************)
\* The sleeps of this run that are backoff waits on segment j.
BackoffsOn(j) ==
    {k \in 1..Len(sleeps) : sleeps[k][1] = "backoff" /\ sleeps[k][2] = j}

\* The state part of C19: each failed attempt on a segment has its one
\* backoff wait; once the attempts of a failed segment are over, and when the
\* failure is raised, the last sleep is the backoff of attempt number retries
\* and the segment has had retries backoff waits.
C19_BackoffPerFailure ==
    /\ \A j \in 1..Len(parts) :
          /\ Cardinality(BackoffsOn(j)) = Cardinality(FailedCallsOn(j))
          /\ \A n \in FailedCallsOn(j) :
                \E k \in BackoffsOn(j) : sleeps[k][3] = calls[n][2]
    /\ (pc = "check" /\ last_err # NoErr) \/ pc = "raised" =>
          /\ retries > 0
          /\ sleeps[Len(sleeps)] = <<"backoff", idx, retries>>
          /\ Cardinality(BackoffsOn(idx)) = retries

\* The step part of C19: a failed call is followed at once by its backoff, and
\* the failure is raised from the check after the loop, not from the call or
\* from the wait.
C19_RaiseAfterBackoff ==
    /\ pc = "calling" /\ pc' # pc /\ last_err' # last_err =>
          /\ pc' = "backoff"
          /\ sleeps' = Append(sleeps, <<"backoff", idx, attempt>>)
    /\ pc' = "raised" /\ pc # "raised" => pc = "check" /\ sleeps' = sleeps

\* C19: every failed attempt is followed by exactly one backoff wait, the
\* final attempt of an exhausted segment included: the failure is raised only
\* after the backoff of the last failed attempt has elapsed, so an exhausted
\* segment incurs exactly retries backoff waits.
C19_BackoffAfterEveryFailure ==
    []C19_BackoffPerFailure /\ [][C19_RaiseAfterBackoff]_vars

\* The first segment failed both attempts; two backoffs were slept, then the
\* failure was raised.
C19_Witness ==
    /\ pc = "raised"
    /\ retries = 2
    /\ err.idx = 1
    /\ sleeps = << <<"backoff", 1, 1>>, <<"backoff", 1, 2>> >>
    /\ wait >= base_pause * 2

\* The calls on segment j that have been answered by a success.
OkCallsOn(j) == {n \in CallsOn(j) : Answered(n) /\ script[n] = "ok"}

\* C20: at the end of a segment's attempt loop last_err is non-None if and
\* only if no attempt on the segment succeeded and no output was appended for
\* it; a success after failures of the same segment has cleared last_err.
C20_LastErrIffNoSuccess ==
    pc = "check" =>
        (last_err # NoErr <=> (OkCallsOn(idx) = {} /\ OutputsOf(idx) = {}))

====
